---- MODULE Spec2Model ----
(***************************************************************************)
(* The book recommendator: the /api/recommend route handler (GET of        *)
(* src/app/api/recommend/route.ts) and the /api/saved-books route handlers *)
(* with the CouchDB client they call.                                      *)
(*                                                                         *)
(* Strings the code inspects character by character (the query, a subject, *)
(* a slug) are sequences of one-character strings.  An optional value is   *)
(* None or Some(v).  A catalog key is the empty string (which also stands  *)
(* for a missing key: both are falsy in the code) or Key(i).               *)
(***************************************************************************)
EXTENDS Integers, Sequences, FiniteSets, TLC

(***************************************************************************)
(* Bounds of the model.                                                    *)
(***************************************************************************)
\* longest search response drawn from all sequences of doc kinds
MaxDocs == 4
\* longest subject response drawn from all sequences of work kinds
MaxWorks == 2
\* number of distinct catalog keys in the long, duplicate-free responses
NumKeys == 12

(***************************************************************************)
(* Values.                                                                 *)
(***************************************************************************)
None == <<>>
Some(v) == <<v>>
Get(o) == o[1]
OrElse(o, d) == IF o = None THEN d ELSE Get(o)

Min(a, b) == IF a <= b THEN a ELSE b

Key(i) == <<"/works/OL", i, "W">>
NoKey == <<>>

MAX_RESULTS == 10

WhiteSpace == {" ", "\t", "\n"}

RECURSIVE TrimStart(_)
TrimStart(s) ==
    IF s # <<>> /\ Head(s) \in WhiteSpace THEN TrimStart(Tail(s)) ELSE s

RECURSIVE TrimEnd(_)
TrimEnd(s) ==
    IF s # <<>> /\ s[Len(s)] \in WhiteSpace
    THEN TrimEnd(SubSeq(s, 1, Len(s) - 1))
    ELSE s

\* String.prototype.trim
Trim(s) == TrimEnd(TrimStart(s))

(***************************************************************************)
(* The subject slug.                                                       *)
(***************************************************************************)
UpperCase == <<"A", "B", "C", "D", "E", "F", "G", "H", "I", "J", "K", "L", "M",
               "N", "O", "P", "Q", "R", "S", "T", "U", "V", "W", "X", "Y", "Z">>
LowerCase == <<"a", "b", "c", "d", "e", "f", "g", "h", "i", "j", "k", "l", "m",
               "n", "o", "p", "q", "r", "s", "t", "u", "v", "w", "x", "y", "z">>

ToLowerChar(c) ==
    IF \E i \in DOMAIN UpperCase : UpperCase[i] = c
    THEN LowerCase[CHOOSE i \in DOMAIN UpperCase : UpperCase[i] = c]
    ELSE c

\* String.prototype.toLowerCase
toLowerCase(s) == [i \in DOMAIN s |-> ToLowerChar(s[i])]

\* .replace(/[.,]/g, "")
StripPunctuation(s) == SelectSeq(s, LAMBDA c : c \notin {".", ","})

\* a slip: /\s/g for /\s+/g, every whitespace character becomes a "_"
ReplaceEachWhitespace(s) ==
    [i \in DOMAIN s |-> IF s[i] \in WhiteSpace THEN "_" ELSE s[i]]

\* .replace(/\s+/g, "_"): every maximal run of whitespace becomes one "_"
RECURSIVE CollapseWhitespace(_)
CollapseWhitespace(s) ==
    IF s = <<>> THEN <<>>
    ELSE IF Head(s) \in WhiteSpace
         THEN <<"_">> \o CollapseWhitespace(TrimStart(s))
         ELSE <<Head(s)>> \o CollapseWhitespace(Tail(s))

\* encodeURIComponent on one character: letters and "_" are unreserved,
\* "&" and "/" are percent-encoded
EncodeChar(c) ==
    CASE c = "&" -> <<"%", "2", "6">>
      [] c = "/" -> <<"%", "2", "F">>
      [] OTHER -> <<c>>

RECURSIVE encodeURIComponent(_)
encodeURIComponent(s) ==
    IF s = <<>> THEN <<>>
    ELSE EncodeChar(Head(s)) \o encodeURIComponent(Tail(s))

subjectSlug(primarySubject) ==
    CollapseWhitespace(StripPunctuation(toLowerCase(primarySubject)))

(***************************************************************************)
(* Normalizers.                                                            *)
(***************************************************************************)
coverUrlFromId(coverId) ==
    IF coverId # None /\ Get(coverId) # 0
    THEN Some(<<"https://covers.openlibrary.org/b/id/", Get(coverId), "-L.jpg">>)
    ELSE None

mapDocToBook(doc) ==
    [key |-> doc.key,
     title |-> doc.title,
     author |-> IF doc.author_name # None /\ Get(doc.author_name) # <<>>
                THEN Get(doc.author_name)[1]
                ELSE "Unknown author",
     coverImage |-> coverUrlFromId(doc.cover_i),
     year |-> doc.first_publish_year,
     subjects |-> IF doc.subject # None THEN doc.subject ELSE doc.subject_facet]

mapSubjectWorkToBook(work) ==
    [key |-> work.key,
     title |-> work.title,
     author |-> IF work.authors # None /\ Get(work.authors) # <<>>
                THEN Get(work.authors)[1].name
                ELSE "Unknown author",
     coverImage |-> coverUrlFromId(work.cover_id),
     year |-> work.first_publish_year,
     subjects |-> work.subject]

(***************************************************************************)
(* Inputs: the request and what the catalog may answer.                    *)
(***************************************************************************)
\* the "query" search parameter: missing, or a string
Queries ==
    {None,
     Some(<<>>),
     Some(<<" ">>),
     Some(<<"a">>),
     Some(<<" ", "a", " ">>),
     Some(<<"\t", "a">>),
     Some(<<"a", "b">>),
     Some(<<" ", "a", "b", "\n">>)}

ScienceFiction ==
    <<"S", "c", "i", "e", "n", "c", "e", " ", "F", "i", "c", "t", "i", "o", "n",
      ",", " ", "F", "a", "n", "t", "a", "s", "y", ".">>

SearchDoc(key, title, subject, subject_facet) ==
    [key |-> key, title |-> title, author_name |-> None, cover_i |-> None,
     first_publish_year |-> None, subject |-> subject,
     subject_facet |-> subject_facet]

SubjectWork(key, title) ==
    [key |-> key, title |-> title, authors |-> None, cover_id |-> None,
     first_publish_year |-> None, subject |-> None]

Mythology == <<"M", "y", "t", "h", "o", "l", "o", "g", "y">>

\* the subject and subject_facet lists of the search hits: no tags at all, a
\* subject list, or an empty subject list with a facet list
SubjectTags ==
    {<<None, None>>,
     <<Some(<<ScienceFiction>>), None>>,
     <<Some(<<>>), Some(<<Mythology>>)>>}

\* key and title of a search hit: without key, without title, or with both
DocKinds == {<<NoKey, "Circe">>, <<Key(1), "">>, <<Key(1), "Circe">>,
             <<Key(2), "Galatea">>}

\* key and title of a subject work
WorkKinds == {<<NoKey, "Untitled">>, <<Key(1), "Circe">>, <<Key(2), "Galatea">>,
              <<Key(3), "">>}

SeqsUpTo(S, n) == UNION {[1..m -> S] : m \in 0..n}

\* the keys a, a+1, ..., b in this order
Run(a, b) == [i \in 1..(b - a + 1) |-> Key(a + i - 1)]

SearchDocLists ==
    {[i \in DOMAIN ks |-> SearchDoc(ks[i][1], ks[i][2], tags[1], tags[2])] :
        ks \in SeqsUpTo(DocKinds, MaxDocs), tags \in SubjectTags}
    \cup
    {[i \in DOMAIN ks |-> SearchDoc(ks[i], "Circe", tags[1], tags[2])] :
        ks \in {Run(1, n) : n \in 1..NumKeys}, tags \in SubjectTags}

SubjectWorkLists ==
    {[i \in DOMAIN ks |-> SubjectWork(ks[i][1], ks[i][2])] :
        ks \in SeqsUpTo(WorkKinds, MaxWorks)}
    \cup
    {[i \in DOMAIN ks |-> SubjectWork(ks[i], "Work")] :
        ks \in {Run(a, NumKeys) : a \in 1..NumKeys}}

\* the parsed body of a search response: docs may be missing
SearchBodies == {[docs |-> None]} \cup {[docs |-> Some(ds)] : ds \in SearchDocLists}

\* the parsed body of a subject response: works may be missing
SubjectBodies ==
    {[works |-> None]} \cup {[works |-> Some(ws)] : ws \in SubjectWorkLists}

(***************************************************************************)
(* State of one invocation of GET /api/recommend.                          *)
(***************************************************************************)
VARIABLES
    pc,               \* position of the handler
    request,          \* the "query" search parameter of the request
    fetchLog,         \* the outbound requests issued so far, in order
    searchOutcome,    \* what became of the search request
    searchData,       \* the parsed search body, once received
    docs,             \* searchData.docs filtered on key and title
    seedBook,         \* the seed, once chosen
    uniqueKeys,       \* the used keys
    recommendations,  \* the list being filled
    recSource,        \* where each entry of recommendations came from
    subjectOutcome,   \* what became of the subject request
    subjectData,      \* the parsed subject body, once received
    filtered,         \* the subject works that passed the filter
    idx,              \* position of the running forEach
    responses         \* the responses returned, in order

(***************************************************************************)
(* State of the saved-books routes and of the document store behind them.  *)
(***************************************************************************)
VARIABLES
    resolvedBaseUrl,  \* the store's base URL, None when COUCHDB_URL is not set
    store,            \* the documents of the database, in creation order
    uuids,            \* how many ids the store has assigned
    clock,            \* the server's clock
    creating,         \* the payloads of the POST handlers awaiting the store
    posts,            \* how many POST requests have been received
    accepted,         \* the accepted saves: the book sent, the time the
                      \* handler read the clock, and the answer
    lastList,         \* the latest answer of GET, with the saves accepted before
    lastPost,         \* the latest answer of POST: the request, what its body
                      \* held and the status
    createRequests    \* the POST requests whose handler called the store

(***************************************************************************)
(* State of the Home component of the page, and of the calls it has made.  *)
(***************************************************************************)
VARIABLES
    home,             \* the component's state hooks, by their names
    mounted,          \* whether the mount effect has run
    recommendCalls,   \* the fetchRecommendations calls, in the order made
    loads,            \* the fetchSavedBooks calls, in the order made
    saves             \* the handleSaveBook calls, in the order made

recommendVars == <<pc, request, fetchLog, searchOutcome, searchData, docs,
                   seedBook, uniqueKeys, recommendations, recSource,
                   subjectOutcome, subjectData, filtered, idx, responses>>

shelfVars == <<resolvedBaseUrl, store, uuids, clock, creating, posts, accepted,
               lastList, lastPost, createRequests>>

pageVars == <<home, mounted, recommendCalls, loads, saves>>

vars == <<recommendVars, shelfVars, pageVars>>

(***************************************************************************)
(* Pieces of the handler.                                                  *)
(***************************************************************************)
SearchRequest(query) == [endpoint |-> "search", arg |-> query]
SubjectRequest(slug) == [endpoint |-> "subject", arg |-> encodeURIComponent(slug)]

createErrorResponse(message, status) ==
    [status |-> status, body |-> [error |-> message]]

NoMatchResponse ==
    [status |-> 200,
     body |-> [seed |-> None, recommendations |-> <<>>,
               message |-> "We could not find any matches for that book."]]

SuccessResponse(seed, recs) ==
    [status |-> 200,
     body |-> [seed |-> seed,
               recommendations |-> SubSeq(recs, 1, Min(Len(recs), MAX_RESULTS))]]

\* searchParams.get("query")?.trim()
TrimmedQuery(req) == IF req = None THEN None ELSE Some(Trim(Get(req)))

\* !query: the parameter is missing or trims to the empty string
QueryMissing(query) == query = None \/ Get(query) = <<>>

\* a slip: the length check is off by one
QueryTooShortBelowOne(query) == Len(Get(query)) < 1

\* query.length < 2
QueryTooShort(query) == Len(Get(query)) < 2

\* a slip: the filter forgets the title
FilterDocsOnKey(data) ==
    IF data.docs = None THEN <<>>
    ELSE SelectSeq(Get(data.docs), LAMBDA doc : doc.key # NoKey)

\* searchData.docs?.filter((doc) => doc.key && doc.title) ?? []
FilterDocs(data) ==
    IF data.docs = None THEN <<>>
    ELSE SelectSeq(Get(data.docs), LAMBDA doc : doc.key # NoKey /\ doc.title # "")

\* a slip: the seed is taken from the end of the hits
SeedDocLast(ds) == ds[Len(ds)]

\* const seedDoc = docs[0]
SeedDoc(ds) == ds[1]

\* [...(seedDoc.subject ?? []), ...(seedDoc.subject_facet ?? [])]
allSubjects(seedDoc) ==
    OrElse(seedDoc.subject, <<>>) \o OrElse(seedDoc.subject_facet, <<>>)

\* allSubjects[0], when it is truthy
PrimarySubject(seedDoc) ==
    IF allSubjects(seedDoc) # <<>> /\ allSubjects(seedDoc)[1] # <<>>
    THEN Some(allSubjects(seedDoc)[1])
    ELSE None

\* a slip: the filter forgets the used keys
FilterWorksOnKey(data, used) ==
    IF data.works = None THEN <<>>
    ELSE SelectSeq(Get(data.works), LAMBDA work : work.key # NoKey)

\* subjectData.works?.filter((work) => work.key && !uniqueKeys.has(work.key));
\* the whole filter runs before the first forEach callback
FilterWorks(data, used) ==
    IF data.works = None THEN <<>>
    ELSE SelectSeq(Get(data.works),
                   LAMBDA work : work.key # NoKey /\ work.key \notin used)

\* a slip: the cap check is off by one
CapReachedLate(recs) == Len(recs) > MAX_RESULTS

\* recommendations.length >= MAX_RESULTS
CapReached(recs) == Len(recs) >= MAX_RESULTS

\* the guard of the fallback callback
FallbackSkips(recs, used, doc) == CapReached(recs) \/ doc.key \in used

\* where the handler goes once the subject part is over:
\* if (recommendations.length < MAX_RESULTS) docs.slice(1).forEach(...)
AfterSubject(recs, ds) ==
    IF Len(recs) < MAX_RESULTS /\ Len(ds) > 1 THEN "fallbackLoop" ELSE "respond"

Return(resp) ==
    /\ responses' = Append(responses, resp)
    /\ pc' = "done"

(***************************************************************************)
(* GET /api/recommend, one action per stretch between two suspensions;     *)
(* the two forEach loops advance one callback at a time.                   *)
(***************************************************************************)
\* lines 58-80: validate the query, then issue the search request
Start ==
    /\ pc = "start"
    /\ LET query == TrimmedQuery(request) IN
         IF QueryMissing(query)
         THEN /\ Return(createErrorResponse("Missing required query parameter.", 400))
              /\ UNCHANGED fetchLog
         ELSE IF QueryTooShort(query)
         THEN /\ Return(createErrorResponse(
                            "Query must be at least 2 characters long.", 400))
              /\ UNCHANGED fetchLog
         ELSE /\ fetchLog' = Append(fetchLog, SearchRequest(Get(query)))
              /\ pc' = "awaitSearch"
              /\ UNCHANGED responses
    /\ UNCHANGED <<request, searchOutcome, searchData, docs, seedBook, uniqueKeys,
                   recommendations, recSource, subjectOutcome, subjectData,
                   filtered, idx>>
    /\ UNCHANGED <<shelfVars, pageVars>>

\* the search fetch rejects (the catalog is unreachable): lines 162-165
SearchRejects ==
    /\ pc = "awaitSearch"
    /\ searchOutcome' = "rejected"
    /\ Return(createErrorResponse("Unexpected error while fetching data.", 500))
    /\ UNCHANGED <<request, fetchLog, searchData, docs, seedBook, uniqueKeys,
                   recommendations, recSource, subjectOutcome, subjectData,
                   filtered, idx>>
    /\ UNCHANGED <<shelfVars, pageVars>>

\* a slip: a non-success status makes the handler issue the search once more
SearchNotOkRetries ==
    /\ pc = "awaitSearch"
    /\ IF Len(fetchLog) < 2
       THEN /\ fetchLog' = Append(fetchLog, fetchLog[1])
            /\ UNCHANGED <<pc, searchOutcome, responses>>
       ELSE /\ searchOutcome' = "notok"
            /\ Return(createErrorResponse(
                          "Unable to reach the Open Library search service.", 502))
            /\ UNCHANGED fetchLog
    /\ UNCHANGED <<request, searchData, docs, seedBook, uniqueKeys,
                   recommendations, recSource, subjectOutcome, subjectData,
                   filtered, idx>>
    /\ UNCHANGED <<shelfVars, pageVars>>

\* the search answers with a non-success status: lines 82-87
SearchNotOk ==
    /\ pc = "awaitSearch"
    /\ searchOutcome' = "notok"
    /\ Return(createErrorResponse(
                  "Unable to reach the Open Library search service.", 502))
    /\ UNCHANGED <<request, fetchLog, searchData, docs, seedBook, uniqueKeys,
                   recommendations, recSource, subjectOutcome, subjectData,
                   filtered, idx>>
    /\ UNCHANGED <<shelfVars, pageVars>>

\* the search answers 2xx with a body that is not the expected JSON:
\* searchResponse.json() or the filter throws, lines 89-93 and 162-165
SearchUnusable ==
    /\ pc = "awaitSearch"
    /\ searchOutcome' = "unusable"
    /\ Return(createErrorResponse("Unexpected error while fetching data.", 500))
    /\ UNCHANGED <<request, fetchLog, searchData, docs, seedBook, uniqueKeys,
                   recommendations, recSource, subjectOutcome, subjectData,
                   filtered, idx>>
    /\ UNCHANGED <<shelfVars, pageVars>>

\* the search answers 2xx with a parsed body, one of `bodies`: lines 89-127
SearchOkFrom(bodies) ==
    /\ pc = "awaitSearch"
    /\ \E data \in bodies :
         LET ds == FilterDocs(data) IN
           /\ searchOutcome' = "ok"
           /\ searchData' = Some(data)
           /\ docs' = ds
           /\ IF ds = <<>>
              THEN /\ Return(NoMatchResponse)
                   /\ UNCHANGED <<fetchLog, seedBook, uniqueKeys>>
              ELSE /\ seedBook' = Some(mapDocToBook(SeedDoc(ds)))
                   /\ uniqueKeys' = {mapDocToBook(SeedDoc(ds)).key}
                   /\ UNCHANGED responses
                   /\ IF PrimarySubject(SeedDoc(ds)) # None
                      THEN /\ fetchLog' = Append(fetchLog,
                                SubjectRequest(subjectSlug(
                                    Get(PrimarySubject(SeedDoc(ds))))))
                           /\ pc' = "awaitSubject"
                      ELSE /\ pc' = AfterSubject(<<>>, ds)
                           /\ UNCHANGED fetchLog
    /\ UNCHANGED <<request, recommendations, recSource, subjectOutcome,
                   subjectData, filtered, idx>>
    /\ UNCHANGED <<shelfVars, pageVars>>

\* the subject fetch rejects: the rejection reaches the catch of lines 162-165
SubjectRejects ==
    /\ pc = "awaitSubject"
    /\ subjectOutcome' = "rejected"
    /\ Return(createErrorResponse("Unexpected error while fetching data.", 500))
    /\ UNCHANGED <<request, fetchLog, searchOutcome, searchData, docs, seedBook,
                   uniqueKeys, recommendations, recSource, subjectData, filtered,
                   idx>>
    /\ UNCHANGED <<shelfVars, pageVars>>

\* the subject lookup answers with a non-success status: line 129 is false
SubjectNotOk ==
    /\ pc = "awaitSubject"
    /\ subjectOutcome' = "notok"
    /\ pc' = AfterSubject(recommendations, docs)
    /\ UNCHANGED <<request, fetchLog, searchOutcome, searchData, docs, seedBook,
                   uniqueKeys, recommendations, recSource, subjectData, filtered,
                   idx, responses>>
    /\ UNCHANGED <<shelfVars, pageVars>>

\* the subject lookup answers 2xx with a body that is not the expected JSON:
\* subjectResponse.json() or the filter throws, lines 130-135 and 162-165
SubjectUnusable ==
    /\ pc = "awaitSubject"
    /\ subjectOutcome' = "unusable"
    /\ Return(createErrorResponse("Unexpected error while fetching data.", 500))
    /\ UNCHANGED <<request, fetchLog, searchOutcome, searchData, docs, seedBook,
                   uniqueKeys, recommendations, recSource, subjectData, filtered,
                   idx>>
    /\ UNCHANGED <<shelfVars, pageVars>>

\* the subject lookup answers 2xx with a parsed body, one of `bodies`:
\* lines 130-135
SubjectOkFrom(bodies) ==
    /\ pc = "awaitSubject"
    /\ \E data \in bodies :
         /\ subjectOutcome' = "ok"
         /\ subjectData' = Some(data)
         /\ filtered' = FilterWorks(data, uniqueKeys)
         /\ pc' = IF FilterWorks(data, uniqueKeys) = <<>>
                  THEN AfterSubject(recommendations, docs)
                  ELSE "subjectLoop"
    /\ UNCHANGED <<request, fetchLog, searchOutcome, searchData, docs, seedBook,
                   uniqueKeys, recommendations, recSource, idx, responses>>
    /\ UNCHANGED <<shelfVars, pageVars>>

SearchOk == SearchOkFrom(SearchBodies)

SubjectOk == SubjectOkFrom(SubjectBodies)

\* one callback of the forEach over the filtered works: lines 136-143
SubjectStep ==
    /\ pc = "subjectLoop"
    /\ LET work == filtered[idx] IN
         IF CapReached(recommendations)
         THEN UNCHANGED <<recommendations, recSource, uniqueKeys>>
         ELSE /\ recommendations' = Append(recommendations, mapSubjectWorkToBook(work))
              /\ recSource' = Append(recSource, "subject")
              /\ uniqueKeys' = uniqueKeys \cup {work.key}
    /\ IF idx < Len(filtered)
       THEN /\ idx' = idx + 1
            /\ UNCHANGED pc
       ELSE /\ idx' = 1
            /\ pc' = AfterSubject(recommendations', docs)
    /\ UNCHANGED <<request, fetchLog, searchOutcome, searchData, docs, seedBook,
                   subjectOutcome, subjectData, filtered, responses>>
    /\ UNCHANGED <<shelfVars, pageVars>>

\* one callback of the forEach over docs.slice(1): lines 148-155
FallbackStep ==
    /\ pc = "fallbackLoop"
    /\ LET doc == docs[idx + 1] IN
         IF FallbackSkips(recommendations, uniqueKeys, doc)
         THEN UNCHANGED <<recommendations, recSource, uniqueKeys>>
         ELSE /\ recommendations' = Append(recommendations, mapDocToBook(doc))
              /\ recSource' = Append(recSource, "search")
              /\ uniqueKeys' = uniqueKeys \cup {doc.key}
    /\ IF idx + 1 < Len(docs)
       THEN /\ idx' = idx + 1
            /\ UNCHANGED pc
       ELSE /\ idx' = 1
            /\ pc' = "respond"
    /\ UNCHANGED <<request, fetchLog, searchOutcome, searchData, docs, seedBook,
                   subjectOutcome, subjectData, filtered, responses>>
    /\ UNCHANGED <<shelfVars, pageVars>>

\* lines 158-161
RespondSuccess ==
    /\ pc = "respond"
    /\ Return(SuccessResponse(seedBook, recommendations))
    /\ UNCHANGED <<request, fetchLog, searchOutcome, searchData, docs, seedBook,
                   uniqueKeys, recommendations, recSource, subjectOutcome,
                   subjectData, filtered, idx>>
    /\ UNCHANGED <<shelfVars, pageVars>>

RecommendInit(queries) ==
    /\ pc = "start"
    /\ request \in queries
    /\ fetchLog = <<>>
    /\ searchOutcome = "none"
    /\ searchData = None
    /\ docs = <<>>
    /\ seedBook = None
    /\ uniqueKeys = {}
    /\ recommendations = <<>>
    /\ recSource = <<>>
    /\ subjectOutcome = "none"
    /\ subjectData = None
    /\ filtered = <<>>
    /\ idx = 1
    /\ responses = <<>>

(***************************************************************************)
(* The saved-books routes.                                                 *)
(***************************************************************************)
\* longest stretch of POST requests followed
MaxPosts == 3
\* latest time the server's clock reaches
MaxClock == 2

Uuid(n) == <<"uuid", n>>

Dune ==
    [key |-> Key(1), title |-> "Dune", author |-> "Frank Herbert",
     coverImage |-> None, year |-> None, subjects |-> None]

Circe ==
    [key |-> Key(2), title |-> "Circe", author |-> "Madeline Miller",
     coverImage |-> coverUrlFromId(Some(12345)), year |-> Some(2018),
     subjects |-> Some(<<Mythology>>)]

\* a book taken from the shelf: it carries the id and the savedAt of an
\* earlier save
DuneFromShelf ==
    [key |-> Key(1), title |-> "Dune", author |-> "Frank Herbert",
     coverImage |-> None, year |-> None, subjects |-> None,
     id |-> Uuid(0), savedAt |-> 0]

\* the body of a POST request: without a book, or with one
PostBodies ==
    {[book |-> None]} \cup {[book |-> Some(b)] : b \in {Dune, Circe, DuneFromShelf}}

\* a slip: the spread comes last, so the book's own savedAt wins
StampedUnlessPresent(book, now) ==
    [f \in DOMAIN book \cup {"savedAt"} |->
        IF f \in DOMAIN book THEN book[f] ELSE now]

\* { ...book, savedAt: new Date().toISOString() }
Stamped(book, now) ==
    [f \in DOMAIN book \cup {"savedAt"} |->
        IF f = "savedAt" THEN now ELSE book[f]]

\* the document the store keeps for a created payload
CouchDocument(payload, id, rev) ==
    [f \in DOMAIN payload \cup {"_id", "_rev"} |->
        CASE f = "_id" -> id
          [] f = "_rev" -> rev
          [] OTHER -> payload[f]]

\* data.rows.map((row) => row.doc).filter(Boolean), over the rows the store
\* answers: one row per document
listDocuments(db) ==
    LET rows == [i \in DOMAIN db |-> [id |-> db[i]._id, doc |-> Some(db[i])]]
        present == SelectSeq(rows, LAMBDA row : row.doc # None)
    IN [i \in DOMAIN present |-> Get(present[i].doc)]

\* docs.map((doc) => ({ id: doc._id, title: doc.title, ... }))
Items(couchDocs) ==
    [i \in DOMAIN couchDocs |->
        [id |-> couchDocs[i]._id,
         title |-> couchDocs[i].title,
         author |-> couchDocs[i].author,
         coverImage |-> couchDocs[i].coverImage,
         year |-> couchDocs[i].year,
         subjects |-> couchDocs[i].subjects,
         key |-> couchDocs[i].key,
         savedAt |-> couchDocs[i].savedAt]]

\* the component before its first render: lines 64-74
PageInit ==
    /\ home = [query |-> <<>>, seed |-> None, recommendations |-> <<>>,
               infoMessage |-> None, error |-> None, isLoading |-> FALSE,
               savedBooks |-> <<>>, savedStates |-> <<>>,
               savedLoading |-> FALSE, savedError |-> None,
               savedToast |-> None]
    /\ mounted = FALSE
    /\ recommendCalls = <<>>
    /\ loads = <<>>
    /\ saves = <<>>

ShelfInit(urls) ==
    /\ resolvedBaseUrl \in urls
    /\ store = <<>>
    /\ uuids = 0
    /\ clock = 0
    /\ creating = {}
    /\ posts = 0
    /\ accepted = <<>>
    /\ lastList = None
    /\ lastPost = None
    /\ createRequests = {}

\* the answer of a POST handler, with the request it answers and what the
\* request's body held
PostAnswer(req, body, status) ==
    Some([request |-> req, body |-> body, status |-> status])

\* a slip: an existing entry with the same catalog key makes the create a no-op
createDocumentOncePerKey(db, payload, id, rev) ==
    IF \E i \in DOMAIN db : db[i].key = payload.key
    THEN db
    ELSE Append(db, CouchDocument(payload, id, rev))

\* createDocument: the payload is POSTed to the database, which keeps it as a
\* new document under the id it assigns
createDocument(db, payload, id, rev) ==
    Append(db, CouchDocument(payload, id, rev))

\* POST without a book payload: 400, lines 43-49
PostWithoutBook ==
    /\ posts < MaxPosts
    /\ posts' = posts + 1
    /\ \E body \in PostBodies : body.book = None
    /\ lastPost' = PostAnswer(posts + 1, "nobook", 400)
    /\ UNCHANGED <<resolvedBaseUrl, store, uuids, clock, creating, accepted,
                   lastList, createRequests>>
    /\ UNCHANGED <<recommendVars, pageVars>>

\* POST whose body is empty or is not a JSON object: request.json() or the
\* read of body.book throws and the catch answers 500; lines 43 and 65-72
PostUnparsable ==
    /\ posts < MaxPosts
    /\ posts' = posts + 1
    /\ lastPost' = PostAnswer(posts + 1, "unparsable", 500)
    /\ UNCHANGED <<resolvedBaseUrl, store, uuids, clock, creating, accepted,
                   lastList, createRequests>>
    /\ UNCHANGED <<recommendVars, pageVars>>

\* POST with a book: the payload is stamped and handed to createDocument,
\* which throws at once when the store is not configured; lines 43-58
PostWithBook ==
    /\ posts < MaxPosts
    /\ posts' = posts + 1
    /\ \E body \in PostBodies, now \in clock..MaxClock :
         /\ body.book # None
         /\ clock' = now
         /\ IF resolvedBaseUrl = None
            THEN /\ lastPost' = PostAnswer(posts + 1, "book", 500)
                 /\ UNCHANGED <<creating, createRequests>>
            ELSE /\ creating' = creating \cup
                    {[request |-> posts + 1, book |-> Get(body.book),
                      now |-> now,
                      payload |-> Stamped(Get(body.book), now)]}
                 /\ createRequests' = createRequests \cup {posts + 1}
                 /\ UNCHANGED lastPost
    /\ UNCHANGED <<resolvedBaseUrl, store, uuids, accepted, lastList>>
    /\ UNCHANGED <<recommendVars, pageVars>>

\* the store creates the document under a fresh id and the handler answers
\* { id, rev, savedAt }: lines 58-64
StoreCreates ==
    /\ \E c \in creating :
         LET id == Uuid(uuids + 1)
             rev == "1-967a00dff5e02add41819138abb3284d"
         IN /\ store' = createDocument(store, c.payload, id, rev)
            /\ uuids' = uuids + 1
            /\ creating' = creating \ {c}
            /\ accepted' = Append(accepted,
                   [request |-> c.request, book |-> c.book, now |-> c.now,
                    answer |-> [id |-> id, rev |-> rev,
                                savedAt |-> c.payload.savedAt]])
            /\ lastPost' = PostAnswer(c.request, "book", 200)
    /\ UNCHANGED <<resolvedBaseUrl, clock, posts, lastList, createRequests>>
    /\ UNCHANGED <<recommendVars, pageVars>>

\* the store answers with a non-success status: couchRequest throws and the
\* handler answers 500, lines 65-72
StoreRefuses ==
    /\ \E c \in creating :
         /\ creating' = creating \ {c}
         /\ lastPost' = PostAnswer(c.request, "book", 500)
    /\ UNCHANGED <<resolvedBaseUrl, store, uuids, clock, posts, accepted,
                   lastList, createRequests>>
    /\ UNCHANGED <<recommendVars, pageVars>>

\* GET answers { items }: lines 17-31
GetSavedBooks ==
    /\ resolvedBaseUrl # None
    /\ lastList' = Some([items |-> Items(listDocuments(store)),
                         after |-> Len(accepted)])
    /\ UNCHANGED <<resolvedBaseUrl, store, uuids, clock, creating, posts,
                   accepted, lastPost, createRequests>>
    /\ UNCHANGED <<recommendVars, pageVars>>

\* GET fails: the store is not configured or does not answer; lines 32-38
GetSavedBooksFails ==
    /\ lastList' = None
    /\ UNCHANGED <<resolvedBaseUrl, store, uuids, clock, creating, posts,
                   accepted, lastPost, createRequests>>
    /\ UNCHANGED <<recommendVars, pageVars>>

ShelfStart ==
    /\ RecommendInit({None})
    /\ ShelfInit({None, Some("https://couch.example")})
    /\ PageInit

ShelfNext ==
    \/ PostWithoutBook
    \/ PostUnparsable
    \/ PostWithBook
    \/ StoreCreates
    \/ StoreRefuses
    \/ GetSavedBooks
    \/ GetSavedBooksFails

ShelfSpec == ShelfStart /\ [][ShelfNext]_vars

Init ==
    /\ RecommendInit(Queries)
    /\ ShelfInit({Some("https://couch.example")})
    /\ PageInit

Next ==
    \/ Start
    \/ SearchRejects
    \/ SearchNotOk
    \/ SearchUnusable
    \/ SearchOk
    \/ SubjectRejects
    \/ SubjectNotOk
    \/ SubjectUnusable
    \/ SubjectOk
    \/ SubjectStep
    \/ FallbackStep
    \/ RespondSuccess

Spec == Init /\ [][Next]_vars

(***************************************************************************)
(* The same handler over hits that vary in what the normalizers and the    *)
(* subject slug read: subject strings, subject and facet lists, cover ids. *)
(***************************************************************************)
\* longest subject string drawn from all strings over SubjectAlphabet
MaxSubjectLen == 4

\* a letter in both cases, comma, period, and two whitespace characters
SubjectAlphabet == {"S", "s", ",", ".", " ", "\t"}

SubjectStrings == SeqsUpTo(SubjectAlphabet, MaxSubjectLen) \cup {ScienceFiction}

\* subject and subject_facet of a hit: each missing, empty, or a list whose
\* first entry may be the empty string
TagLists == {None, Some(<<>>), Some(<<Mythology>>), Some(<<ScienceFiction>>),
             Some(<<Mythology, ScienceFiction>>), Some(<<<<>>, Mythology>>)}

\* cover_i / cover_id of a hit: missing, or a number
CoverIds == {None, Some(0), Some(1), Some(12345)}

HitDoc(key, title, subject, subject_facet, cover_i) ==
    [key |-> key, title |-> title, author_name |-> None, cover_i |-> cover_i,
     first_publish_year |-> None, subject |-> subject,
     subject_facet |-> subject_facet]

HitWork(key, title, cover_id) ==
    [key |-> key, title |-> title, authors |-> None, cover_id |-> cover_id,
     first_publish_year |-> None, subject |-> None]

HitSearchBodies ==
    {[docs |-> Some(<<HitDoc(Key(1), "Circe", Some(<<subject>>), None, None)>>)] :
        subject \in SubjectStrings}
    \cup
    {[docs |-> Some(<<HitDoc(Key(1), "Circe", subject, facet, None)>>)] :
        subject \in TagLists, facet \in TagLists}
    \cup
    {[docs |-> Some(<<HitDoc(Key(1), "Circe", Some(<<Mythology>>), None, c1),
                      HitDoc(Key(2), "Galatea", None, None, c2)>>)] :
        c1 \in CoverIds, c2 \in CoverIds}

HitSubjectBodies ==
    {[works |-> Some(<<>>)]}
    \cup
    {[works |-> Some(<<HitWork(Key(3), "Ithaca", c)>>)] : c \in CoverIds}

HitSearchOk == SearchOkFrom(HitSearchBodies)

HitSubjectOk == SubjectOkFrom(HitSubjectBodies)

HitInit ==
    /\ RecommendInit({Some(<<"a", "b">>)})
    /\ ShelfInit({Some("https://couch.example")})
    /\ PageInit

HitNext ==
    \/ Start
    \/ HitSearchOk
    \/ SubjectNotOk
    \/ HitSubjectOk
    \/ SubjectStep
    \/ FallbackStep
    \/ RespondSuccess

HitSpec == HitInit /\ [][HitNext]_vars

(***************************************************************************)
(* The Home component: the search form with its quick picks, the results,  *)
(* and the saved shelf.  Its requests go to the two routes above; a call   *)
(* of an async function is one action up to its await and one action for   *)
(* what runs when the awaited response is there.                           *)
(***************************************************************************)
\* most fetchRecommendations calls followed
MaxCalls == 2
\* most handleSaveBook calls followed
MaxSaves == 2

\* one of the quick picks: lines 48-55
quickPicks == {<<"P", "a", "c", "h", "i", "n", "k", "o">>}

\* what the visitor types into the search field: blanks, or a title
TypedQueries == {<<" ">>, <<"C", "i", "r", "c", "e", " ">>}

\* what GET /api/recommend may answer for a term: a seed with or without
\* recommendations, no match, or an error
RecommendAnswers(term) ==
    LET found == IF term \in quickPicks THEN Dune ELSE Circe
        similar == IF term \in quickPicks THEN <<Circe>> ELSE <<Dune, Circe>>
    IN {SuccessResponse(Some(found), similar),
        SuccessResponse(Some(found), <<>>),
        NoMatchResponse,
        createErrorResponse("Unable to reach the Open Library search service.", 502)}

\* response.ok
Ok(response) == response.status \in 200..299

\* savedStates[key], "idle" standing for no entry
SavedState(key) ==
    IF key \in DOMAIN home.savedStates THEN home.savedStates[key] ELSE "idle"

\* { ...prev, [key]: state }
WithState(states, key, state) ==
    [k \in DOMAIN states \cup {key} |-> IF k = key THEN state ELSE states[k]]

\* items.forEach((item) => { next[item.key] = "saved" })
RECURSIVE WithAllSaved(_, _)
WithAllSaved(states, items) ==
    IF items = <<>> THEN states
    ELSE WithAllSaved(WithState(states, Head(items).key, "saved"), Tail(items))

\* { ...book, id: data.id, savedAt: data.savedAt }
AsSavedBook(book, data) ==
    [f \in DOMAIN book \cup {"id", "savedAt"} |->
        CASE f = "id" -> data.id
          [] f = "savedAt" -> data.savedAt
          [] OTHER -> book[f]]

\* fetchRecommendations up to its await, from the component state h:
\* lines 125-138
fetchRecommendations(h, searchTerm) ==
    LET trimmed == Trim(searchTerm) IN
      IF trimmed = <<>>
      THEN /\ home' = h
           /\ UNCHANGED recommendCalls
      ELSE /\ home' = [h EXCEPT !.isLoading = TRUE, !.error = None,
                                !.infoMessage = None]
           /\ recommendCalls' = Append(recommendCalls,
                                       [term |-> trimmed, response |-> None,
                                        outcome |-> "pending"])

\* the visitor edits the search field: onValueChange={setQuery}, line 266
setQuery ==
    /\ \E value \in TypedQueries : home' = [home EXCEPT !.query = value]
    /\ UNCHANGED <<mounted, recommendCalls, loads, saves>>
    /\ UNCHANGED <<recommendVars, shelfVars>>

\* the form is submitted; its button is disabled while isLoading:
\* lines 169-172 and 284-290
handleSubmit ==
    /\ ~home.isLoading
    /\ Len(recommendCalls) < MaxCalls
    /\ fetchRecommendations(home, home.query)
    /\ UNCHANGED <<mounted, loads, saves>>
    /\ UNCHANGED <<recommendVars, shelfVars>>

\* a quick pick is clicked, which nothing disables: lines 174-177 and 298-305
handleQuickPick ==
    /\ Len(recommendCalls) < MaxCalls
    /\ \E title \in quickPicks :
         fetchRecommendations([home EXCEPT !.query = title], title)
    /\ UNCHANGED <<mounted, loads, saves>>
    /\ UNCHANGED <<recommendVars, shelfVars>>

\* the response of a pending call is there and its body parses:
\* lines 140-159 and 164-166
RecommendationsArrive ==
    /\ \E i \in DOMAIN recommendCalls :
         /\ recommendCalls[i].outcome = "pending"
         /\ \E response \in RecommendAnswers(recommendCalls[i].term) :
              LET data == response.body IN
                /\ recommendCalls' =
                       [recommendCalls EXCEPT ![i].response = Some(response),
                                              ![i].outcome = "answered"]
                /\ IF ~Ok(response)
                   THEN home' = [home EXCEPT
                            !.seed = None,
                            !.recommendations = <<>>,
                            !.error =
                                IF "error" \in DOMAIN data
                                THEN Some(data.error)
                                ELSE Some("We could not get recommendations right now."),
                            !.isLoading = FALSE]
                   ELSE home' = [home EXCEPT
                            !.seed = data.seed,
                            !.recommendations = data.recommendations,
                            !.infoMessage =
                                IF data.recommendations # <<>> THEN @
                                ELSE IF "message" \in DOMAIN data
                                THEN Some(data.message)
                                ELSE Some("We couldn't find similar titles, but try another book!"),
                            !.isLoading = FALSE]
    /\ UNCHANGED <<mounted, loads, saves>>
    /\ UNCHANGED <<recommendVars, shelfVars>>

\* the fetch of a pending call rejects, or its body does not parse:
\* lines 160-166
RecommendationsFail ==
    /\ \E i \in DOMAIN recommendCalls :
         /\ recommendCalls[i].outcome = "pending"
         /\ recommendCalls' = [recommendCalls EXCEPT ![i].outcome = "rejected"]
    /\ home' = [home EXCEPT
            !.seed = None,
            !.recommendations = <<>>,
            !.error = Some("Something went wrong while reaching the recommendation service."),
            !.isLoading = FALSE]
    /\ UNCHANGED <<mounted, loads, saves>>
    /\ UNCHANGED <<recommendVars, shelfVars>>

\* the mount effect calls fetchSavedBooks, which runs up to its await:
\* lines 81-86 and 113-115
Mount ==
    /\ ~mounted
    /\ mounted' = TRUE
    /\ home' = [home EXCEPT !.savedLoading = TRUE, !.savedError = None]
    /\ loads' = Append(loads, [phase |-> "sent", items |-> <<>>])
    /\ UNCHANGED <<recommendCalls, saves>>
    /\ UNCHANGED <<recommendVars, shelfVars>>

\* GET /api/saved-books reads the store for a load and answers { items }
SavedBooksServed ==
    /\ \E i \in DOMAIN loads :
         /\ loads[i].phase = "sent"
         /\ loads' = [loads EXCEPT ![i] = [phase |-> "answered",
                                           items |-> Items(listDocuments(store))]]
    /\ UNCHANGED <<home, mounted, recommendCalls, saves>>
    /\ UNCHANGED <<recommendVars, shelfVars>>

\* the answer of a load is there: lines 87-104 and 108-110
LoadSettles ==
    /\ \E i \in DOMAIN loads :
         /\ loads[i].phase = "answered"
         /\ loads' = [loads EXCEPT ![i].phase = "settled"]
         /\ home' = [home EXCEPT
                !.savedBooks = loads[i].items,
                !.savedStates = WithAllSaved(@, loads[i].items),
                !.savedLoading = FALSE]
    /\ UNCHANGED <<mounted, recommendCalls, saves>>
    /\ UNCHANGED <<recommendVars, shelfVars>>

\* a load fails: the route answers 500, or the fetch rejects before or after
\* the route ran; lines 92-94 and 105-110
LoadFails ==
    /\ \E i \in DOMAIN loads :
         /\ loads[i].phase \in {"sent", "answered"}
         /\ loads' = [loads EXCEPT ![i].phase = "settled"]
    /\ home' = [home EXCEPT
            !.savedError = Some("We couldn't load your saved books."),
            !.savedLoading = FALSE]
    /\ UNCHANGED <<mounted, recommendCalls, saves>>
    /\ UNCHANGED <<recommendVars, shelfVars>>

\* the save button of a recommendation is pressed; it is disabled while the
\* book's state is "saving"; handleSaveBook runs up to its await:
\* lines 179-190 and 474-476
handleSaveBook ==
    /\ Len(saves) < MaxSaves
    /\ \E i \in DOMAIN home.recommendations :
         LET book == home.recommendations[i] IN
           /\ SavedState(book.key) # "saving"
           /\ home' = [home EXCEPT
                  !.savedStates = WithState(@, book.key, "saving"),
                  !.savedToast = None]
           /\ saves' = Append(saves, [book |-> book, phase |-> "sent",
                                      data |-> None])
    /\ UNCHANGED <<mounted, recommendCalls, loads>>
    /\ UNCHANGED <<recommendVars, shelfVars>>

\* POST /api/saved-books stamps the book of a save, creates the document and
\* answers { id, rev, savedAt }
SaveServed ==
    /\ \E i \in DOMAIN saves, now \in clock..MaxClock :
         LET id == Uuid(uuids + 1)
             rev == "1-967a00dff5e02add41819138abb3284d"
             payload == Stamped(saves[i].book, now)
         IN /\ saves[i].phase = "sent"
            /\ clock' = now
            /\ uuids' = uuids + 1
            /\ store' = createDocument(store, payload, id, rev)
            /\ saves' = [saves EXCEPT
                   ![i].phase = "answered",
                   ![i].data = Some([id |-> id, rev |-> rev,
                                     savedAt |-> payload.savedAt])]
    /\ UNCHANGED <<home, mounted, recommendCalls, loads>>
    /\ UNCHANGED <<resolvedBaseUrl, creating, posts, accepted, lastList,
                   lastPost, createRequests>>
    /\ UNCHANGED recommendVars

\* the answer of a save is there, with an id and a savedAt: lines 192-209
SaveSettles ==
    /\ \E i \in DOMAIN saves :
         LET book == saves[i].book
             data == Get(saves[i].data)
         IN /\ saves[i].phase = "answered"
            /\ saves' = [saves EXCEPT ![i].phase = "settled"]
            /\ home' = [home EXCEPT
                   !.savedStates = WithState(@, book.key, "saved"),
                   !.savedBooks =
                       IF \E n \in DOMAIN @ : @[n].key = book.key
                       THEN @
                       ELSE <<AsSavedBook(book, data)>> \o @,
                   !.savedToast = Some(<<"Saved", book.title>>)]
    /\ UNCHANGED <<mounted, recommendCalls, loads>>
    /\ UNCHANGED <<recommendVars, shelfVars>>

\* a save fails: the route answers 500, or the fetch rejects before or after
\* the route ran; lines 198-200 and 210-214
SaveFails ==
    /\ \E i \in DOMAIN saves :
         /\ saves[i].phase \in {"sent", "answered"}
         /\ saves' = [saves EXCEPT ![i].phase = "settled"]
         /\ home' = [home EXCEPT
                !.savedStates = WithState(@, saves[i].book.key, "error"),
                !.savedToast = Some(<<"We couldn't save that book. Please try again.">>)]
    /\ UNCHANGED <<mounted, recommendCalls, loads>>
    /\ UNCHANGED <<recommendVars, shelfVars>>

\* the toast's timer runs out: lines 117-123
ToastExpires ==
    /\ home.savedToast # None
    /\ home' = [home EXCEPT !.savedToast = None]
    /\ UNCHANGED <<mounted, recommendCalls, loads, saves>>
    /\ UNCHANGED <<recommendVars, shelfVars>>

PageStart ==
    /\ RecommendInit({None})
    /\ ShelfInit({Some("https://couch.example")})
    /\ PageInit

PageNext ==
    \/ setQuery
    \/ handleSubmit
    \/ handleQuickPick
    \/ RecommendationsArrive
    \/ RecommendationsFail
    \/ Mount
    \/ SavedBooksServed
    \/ LoadSettles
    \/ LoadFails
    \/ handleSaveBook
    \/ SaveServed
    \/ SaveSettles
    \/ SaveFails
    \/ ToastExpires

PageSpec == PageStart /\ [][PageNext]_vars

(***************************************************************************)
(* Vocabulary of the properties.                                           *)
(***************************************************************************)
Done == pc = "done"

\* the response of the invocation, once it has returned
Response == responses[Len(responses)]

\* the invocation returned the seed with its recommendations
Succeeded ==
    /\ Done
    /\ Response.status = 200
    /\ Response.body.seed # None

KeysOf(books) == [i \in DOMAIN books |-> books[i].key]

Distinct(seq) == \A i, j \in DOMAIN seq : i # j => seq[i] # seq[j]

\* a search hit with both a key and a title
Qualifies(doc) == doc.key # NoKey /\ doc.title # ""

RawDocs == IF searchData = None THEN <<>> ELSE OrElse(Get(searchData).docs, <<>>)

RawWorks == IF subjectData = None THEN <<>> ELSE OrElse(Get(subjectData).works, <<>>)

SubjectRequested == \E i \in DOMAIN fetchLog : fetchLog[i].endpoint = "subject"

\* position in the raw search response of the first hit with key and title
FirstQualifying == CHOOSE i \in DOMAIN RawDocs :
    Qualifies(RawDocs[i]) /\ \A j \in 1..(i - 1) : ~Qualifies(RawDocs[j])

\* the reference list: candidates in order, each taken unless its key is
\* missing or already used, starting from the used keys `used`
RECURSIVE TakeUnused(_, _)
TakeUnused(books, used) ==
    IF books = <<>> THEN <<>>
    ELSE IF Head(books).key = NoKey \/ Head(books).key \in used
         THEN TakeUnused(Tail(books), used)
         ELSE <<Head(books)>> \o TakeUnused(Tail(books), used \cup {Head(books).key})

FirstN(seq, n) == SubSeq(seq, 1, Min(Len(seq), n))

\* the search hits after the seed that have key and title, as books
FallbackCandidates ==
    LET after == SubSeq(RawDocs, FirstQualifying + 1, Len(RawDocs))
        good == SelectSeq(after, Qualifies)
    IN [i \in DOMAIN good |-> mapDocToBook(good[i])]

SubjectCandidates == [i \in DOMAIN RawWorks |-> mapSubjectWorkToBook(RawWorks[i])]

Reference ==
    FirstN(TakeUnused(SubjectCandidates \o FallbackCandidates,
                      {RawDocs[FirstQualifying].key}),
           MAX_RESULTS)

FallbackReference ==
    FirstN(TakeUnused(FallbackCandidates, {RawDocs[FirstQualifying].key}),
           MAX_RESULTS)

(***************************************************************************)
(* C1: in a successful response no two entries of recommendations share a  *)
(* key, whatever the subject response and the search hits contain.         *)
(***************************************************************************)
RecommendationKeysUnique ==
    Succeeded => Distinct(KeysOf(Response.body.recommendations))

(***************************************************************************)
(* C2: the seed's key never appears among the keys of recommendations,     *)
(* neither while the list is filled nor in the response.                   *)
(***************************************************************************)
SeedNeverRecommended ==
    /\ seedBook # None =>
         \A i \in DOMAIN recommendations : recommendations[i].key # Get(seedBook).key
    /\ Succeeded =>
         \A i \in DOMAIN Response.body.recommendations :
            Response.body.recommendations[i].key # Get(Response.body.seed).key

\* the seed's key came back both from the subject lookup and among the later
\* search hits, and the response carries recommendations
SeedOfferedTwice ==
    /\ Succeeded
    /\ \E i \in DOMAIN RawWorks : RawWorks[i].key = Get(seedBook).key
    /\ \E j \in 2..Len(docs) : docs[j].key = Get(seedBook).key
    /\ "subject" \in {recSource[i] : i \in DOMAIN recSource}
    /\ "search" \in {recSource[i] : i \in DOMAIN recSource}

(***************************************************************************)
(* C3: recommendations never holds more than MAX_RESULTS entries, at any   *)
(* step of the two loops and in every response.                            *)
(***************************************************************************)
AtMostTenRecommendations ==
    /\ Len(recommendations) <= MAX_RESULTS
    /\ \A i \in DOMAIN responses :
         "recommendations" \in DOMAIN responses[i].body =>
            Len(responses[i].body.recommendations) <= MAX_RESULTS

\* the subject lookup offered more than MAX_RESULTS fresh works and the
\* response carries exactly MAX_RESULTS
CapHit ==
    /\ Succeeded
    /\ Len(filtered) > MAX_RESULTS
    /\ Len(Response.body.recommendations) = MAX_RESULTS

(***************************************************************************)
(* C4: once the search found a seed, a failed subject lookup (non-success  *)
(* status, rejected fetch, unusable body) still ends in a 200 response     *)
(* with the seed and exactly the fallback search hits.                     *)
(***************************************************************************)
SubjectFailureAbsorbed ==
    (Done /\ subjectOutcome \in {"notok", "rejected", "unusable"}) =>
        /\ Response.status = 200
        /\ "seed" \in DOMAIN Response.body
        /\ Response.body.seed = Some(mapDocToBook(RawDocs[FirstQualifying]))
        /\ Response.body.recommendations = FallbackReference

(***************************************************************************)
(* C5: a query whose trimmed length is below 2 (or a missing query) is     *)
(* answered 400 and no outbound request is ever issued for it.             *)
(***************************************************************************)
TrimmedLengthBelowTwo == request = None \/ Len(Trim(Get(request))) < 2

InvalidQueryRejected ==
    TrimmedLengthBelowTwo =>
        /\ fetchLog = <<>>
        /\ pc \in {"start", "done"}
        /\ Done => /\ Len(responses) = 1
                   /\ Response.status = 400
                   /\ DOMAIN Response.body = {"error"}

\* a one-character query wrapped in whitespace has been answered
PaddedShortQueryAnswered ==
    /\ Done
    /\ request = Some(<<" ", "a", " ">>)

(***************************************************************************)
(* C6: a successful search without any hit that has key and title is       *)
(* answered 200 with seed null, no recommendations and a non-empty         *)
(* message, and no subject lookup is issued.                               *)
(***************************************************************************)
NoMatchIsSuccess ==
    (searchOutcome = "ok" /\ \A i \in DOMAIN RawDocs : ~Qualifies(RawDocs[i])) =>
        /\ Done
        /\ Len(responses) = 1
        /\ Response.status = 200
        /\ DOMAIN Response.body = {"seed", "recommendations", "message"}
        /\ Response.body.seed = None
        /\ Response.body.recommendations = <<>>
        /\ Response.body.message # ""
        /\ ~SubjectRequested

\* the search returned hits, each missing its key or its title
OnlyUnusableHits ==
    /\ Done
    /\ searchOutcome = "ok"
    /\ Len(RawDocs) >= 2
    /\ \E i \in DOMAIN RawDocs : RawDocs[i].key = NoKey
    /\ \E i \in DOMAIN RawDocs : RawDocs[i].title = ""
    /\ \A i \in DOMAIN RawDocs : ~Qualifies(RawDocs[i])

(***************************************************************************)
(* C7: a failed search call (non-success status, or the catalog being      *)
(* unreachable) is answered 502 with an error body, and no subject lookup  *)
(* is issued.                                                              *)
(***************************************************************************)
SearchFailureIs502 ==
    (Done /\ searchOutcome \in {"notok", "rejected"}) =>
        /\ Response.status = 502
        /\ DOMAIN Response.body = {"error"}
        /\ ~SubjectRequested

(***************************************************************************)
(* C8: the recommendations of a successful response are the reference      *)
(* list: unused subject works in response order, then unused search hits   *)
(* after the seed in response order, cut at MAX_RESULTS.                   *)
(***************************************************************************)
RecommendationsAreReference ==
    Succeeded => Response.body.recommendations = Reference

(***************************************************************************)
(* C9: the seed is the first search hit that has key and title, and every  *)
(* entry taken from the search hits is a later hit with key and title.     *)
(***************************************************************************)
SeedIsFirstQualifyingHit ==
    Succeeded =>
        /\ Response.body.seed = Some(mapDocToBook(RawDocs[FirstQualifying]))
        /\ Get(Response.body.seed).key # NoKey
        /\ Get(Response.body.seed).title # ""
        /\ \A i \in DOMAIN recommendations :
             recSource[i] = "search" =>
                /\ recommendations[i].key # NoKey
                /\ recommendations[i].title # ""
                /\ \E j \in (FirstQualifying + 1)..Len(RawDocs) :
                     /\ Qualifies(RawDocs[j])
                     /\ recommendations[i] = mapDocToBook(RawDocs[j])

\* hits without key or title came before and after the seed, and a later
\* hit was recommended
SeedAfterUnusableHits ==
    /\ Succeeded
    /\ ~Qualifies(RawDocs[1])
    /\ \E j \in (FirstQualifying + 1)..Len(RawDocs) : ~Qualifies(RawDocs[j])
    /\ \E i \in DOMAIN recSource : recSource[i] = "search"

(***************************************************************************)
(* C10: every answer of GET holds, for each save accepted before it, an     *)
(* entry with the id and the savedAt that save answered and with the key,  *)
(* title, author, coverImage, year and subjects of the book sent; the      *)
(* savedAt is the server's stamp even when the book carried its own.       *)
(***************************************************************************)
SavedBooksAreListed ==
    lastList # None =>
        \A n \in 1..Get(lastList).after :
            \E i \in DOMAIN Get(lastList).items :
                LET item == Get(lastList).items[i]
                    sent == accepted[n].book
                IN /\ item.id = accepted[n].answer.id
                   /\ item.savedAt = accepted[n].answer.savedAt
                   /\ item.savedAt = accepted[n].now
                   /\ item.key = sent.key
                   /\ item.title = sent.title
                   /\ item.author = sent.author
                   /\ item.coverImage = sent.coverImage
                   /\ item.year = sent.year
                   /\ item.subjects = sent.subjects

\* a book carrying a savedAt of its own was saved at a later time, another
\* book was saved after it, and the shelf was listed after both
RestampedBookListed ==
    /\ lastList # None
    /\ Get(lastList).after >= 2
    /\ "savedAt" \in DOMAIN accepted[1].book
    /\ accepted[1].answer.savedAt # accepted[1].book.savedAt
    /\ accepted[2].book = Circe

(***************************************************************************)
(* C11: a POST request that supplies no book payload is answered 400, and  *)
(* its handler never calls the store.                                      *)
(***************************************************************************)
MissingBookRejected ==
    (lastPost # None /\ Get(lastPost).body \in {"nobook", "unparsable"}) =>
        /\ Get(lastPost).status = 400
        /\ Get(lastPost).request \notin createRequests

(***************************************************************************)
(* C12: every accepted save adds exactly one document under an id no other *)
(* document has, whether or not its key is already on the shelf and        *)
(* whether or not other saves are in flight; the documents created before  *)
(* stay as they were created.                                              *)
(***************************************************************************)
EverySaveAddsOneEntry ==
    /\ Len(Items(listDocuments(store))) = Len(accepted)
    /\ \A m, n \in DOMAIN store : m # n => store[m]._id # store[n]._id
    /\ \A n \in DOMAIN accepted :
         /\ n \in DOMAIN store
         /\ store[n] = CouchDocument(Stamped(accepted[n].book, accepted[n].now),
                                     accepted[n].answer.id,
                                     accepted[n].answer.rev)

\* three saves of the same key were accepted; the first two were in flight
\* together, the second of them accepted first
SameKeySavedThrice ==
    /\ Len(accepted) = 3
    /\ \A n \in DOMAIN accepted : accepted[n].book.key = Key(1)
    /\ accepted[1].request > accepted[2].request
    /\ lastList # None
    /\ Len(Get(lastList).items) = 3

(***************************************************************************)
(* Vocabulary of the properties about the hits.                            *)
(***************************************************************************)
\* the subject request of the invocation, when one was issued
SubjectRequestIssued ==
    [i \in {j \in DOMAIN fetchLog : fetchLog[j].endpoint = "subject"} |-> fetchLog[i]]

\* the slug as the specification words it, read left to right: commas and
\* periods vanish, a whitespace character yields "_" unless the character kept
\* before it was whitespace too, any other character is lower-cased
SlugLower(c) == CASE c = "S" -> "s" [] c = "F" -> "f" [] c = "M" -> "m" [] OTHER -> c

RECURSIVE SlugFrom(_, _)
SlugFrom(s, inRun) ==
    IF s = <<>> THEN <<>>
    ELSE IF Head(s) \in {",", "."} THEN SlugFrom(Tail(s), inRun)
    ELSE IF Head(s) \in {" ", "\t", "\n"}
         THEN (IF inRun THEN <<>> ELSE <<"_">>) \o SlugFrom(Tail(s), TRUE)
         ELSE <<SlugLower(Head(s))>> \o SlugFrom(Tail(s), FALSE)

\* the subject and subject-facet lists of the seed hit, concatenated
SeedSubjects ==
    LET hit == RawDocs[FirstQualifying]
    IN (IF hit.subject = None THEN <<>> ELSE Get(hit.subject))
       \o (IF hit.subject_facet = None THEN <<>> ELSE Get(hit.subject_facet))

\* the URL of the cover template for a cover id
CoverTemplate(id) == <<"https://covers.openlibrary.org/b/id/", id, "-L.jpg">>

\* coverImage is missing exactly when the cover id is, and else the template
CoverAsGiven(book, id) ==
    /\ book.coverImage # Some("")
    /\ IF id = None
       THEN book.coverImage = None
       ELSE book.coverImage = Some(CoverTemplate(Get(id)))

(***************************************************************************)
(* C13: the slug the subject request targets is the primary subject        *)
(* lower-cased, without commas and periods, each maximal run of whitespace *)
(* replaced by one underscore; it holds no upper-case letter, comma,       *)
(* period or whitespace, and "Science Fiction, Fantasy." gives             *)
(* "science_fiction_fantasy".                                              *)
(***************************************************************************)
SlugAsSpecified ==
    (seedBook # None /\ Get(searchData).docs # None
       /\ Len(Get(Get(searchData).docs)) = 1
       /\ RawDocs[1].subject # None /\ Get(RawDocs[1].subject) # <<>>
       /\ Get(RawDocs[1].subject)[1] # <<>>) =>
        LET subject == Get(RawDocs[1].subject)[1]
            target == fetchLog[2].arg
        IN /\ Len(fetchLog) = 2
           /\ fetchLog[2].endpoint = "subject"
           /\ target = SlugFrom(subject, FALSE)
           /\ \A i \in DOMAIN target :
                target[i] \notin {"S", "F", "M", ",", ".", " ", "\t", "\n"}
           /\ subject = ScienceFiction =>
                target = <<"s", "c", "i", "e", "n", "c", "e", "_", "f", "i", "c",
                           "t", "i", "o", "n", "_", "f", "a", "n", "t", "a", "s",
                           "y">>

\* the subject " ,\tS": a whitespace run that only stripping the comma joins
JoinedRunSlugged ==
    /\ Done
    /\ Len(RawDocs) = 1
    /\ RawDocs[1].subject = Some(<<<<" ", ",", "\t", "S">>>>)
    /\ fetchLog[2].arg = <<"_", "s">>

(***************************************************************************)
(* C14: coverImage of every book of the response is missing exactly when   *)
(* its hit carries no cover id, and is the template URL with the id        *)
(* whenever a numeric id is given; it is never the empty string.           *)
(***************************************************************************)
CoverImageFollowsCoverId ==
    Succeeded =>
        /\ CoverAsGiven(Get(Response.body.seed), RawDocs[FirstQualifying].cover_i)
        /\ \A i \in DOMAIN Response.body.recommendations :
             LET book == Response.body.recommendations[i] IN
               /\ recSource[i] = "subject" =>
                    \A j \in DOMAIN RawWorks :
                        RawWorks[j].key = book.key =>
                            CoverAsGiven(book, RawWorks[j].cover_id)
               /\ recSource[i] = "search" =>
                    \A j \in DOMAIN RawDocs :
                        RawDocs[j].key = book.key =>
                            CoverAsGiven(book, RawDocs[j].cover_i)

(***************************************************************************)
(* C15: a subject request is issued exactly when the seed hit's subject    *)
(* list concatenated with its facet list has a first entry, and it targets *)
(* the slug of that entry.                                                 *)
(***************************************************************************)
LookupIffFirstSubject ==
    seedBook # None =>
        /\ SubjectRequested <=> SeedSubjects # <<>>
        /\ SubjectRequested =>
             /\ Len(fetchLog) = 2
             /\ fetchLog[2].arg = SlugFrom(SeedSubjects[1], FALSE)

\* the positions in the log of the requests sent to an endpoint
RequestsTo(endpoint) == {i \in DOMAIN fetchLog : fetchLog[i].endpoint = endpoint}

(***************************************************************************)
(* C16: an invocation issues at most one search request and at most one    *)
(* subject request, the subject request only after the search was answered *)
(* with a success status, never while the search is pending; it returns at *)
(* most one response, and it stops only once it has returned one.          *)
(***************************************************************************)
CallsSequentialNeverRetried ==
    /\ Cardinality(RequestsTo("search")) <= 1
    /\ Cardinality(RequestsTo("subject")) <= 1
    /\ RequestsTo("subject") # {} =>
         /\ RequestsTo("search") = {1}
         /\ RequestsTo("subject") = {2}
         /\ searchOutcome = "ok"
    /\ pc = "awaitSearch" => RequestsTo("search") = {1} /\ searchOutcome = "none"
    /\ pc = "awaitSubject" => RequestsTo("subject") = {2} /\ subjectOutcome = "none"
    /\ searchOutcome # "none" => RequestsTo("search") = {1}
    /\ subjectOutcome # "none" => RequestsTo("subject") = {2}
    /\ Len(responses) <= 1
    /\ Done <=> Len(responses) = 1
    /\ ~Done => ENABLED Next

\* both lookups failed with a non-success status, each was issued once
BothLookupsRefusedOnce ==
    /\ Done
    /\ Len(fetchLog) = 2
    /\ subjectOutcome = "notok"
    /\ Response.status = 200

(***************************************************************************)
(* Vocabulary of the properties about the page.                            *)
(***************************************************************************)
\* no request of the page is in flight
NothingInFlight ==
    /\ \A i \in DOMAIN loads : loads[i].phase = "settled"
    /\ \A i \in DOMAIN saves : saves[i].phase = "settled"
    /\ \A i \in DOMAIN recommendCalls : recommendCalls[i].outcome # "pending"

\* the keys of the books the shelf shows
ShownOnShelf == {home.savedBooks[n].key : n \in DOMAIN home.savedBooks}

\* what the page shows of a search after a call, had it been the only one
ShownFor(call) ==
    IF call.outcome = "rejected"
    THEN [seed |-> None, recommendations |-> <<>>, infoMessage |-> None,
          error |-> Some("Something went wrong while reaching the recommendation service.")]
    ELSE LET response == Get(call.response) IN
           IF response.status # 200
           THEN [seed |-> None, recommendations |-> <<>>, infoMessage |-> None,
                 error |-> Some(response.body.error)]
           ELSE [seed |-> response.body.seed,
                 recommendations |-> response.body.recommendations,
                 infoMessage |->
                     IF response.body.recommendations # <<>> THEN None
                     ELSE IF response.body.seed = None
                     THEN Some(response.body.message)
                     ELSE Some("We couldn't find similar titles, but try another book!"),
                 error |-> None]

\* what the page shows of a search
Shown ==
    [seed |-> home.seed, recommendations |-> home.recommendations,
     infoMessage |-> home.infoMessage, error |-> home.error]

(***************************************************************************)
(* C17: once no request is in flight, every book whose savedStates entry   *)
(* is "saved" is in the savedBooks list, however the mount-time load and   *)
(* the saves interleave.                                                   *)
(***************************************************************************)
SavedBooksHoldEverySavedBook ==
    NothingInFlight =>
        \A key \in DOMAIN home.savedStates :
            home.savedStates[key] = "saved" => key \in ShownOnShelf

(***************************************************************************)
(* C18: once every fetchRecommendations call has settled, the seed, the    *)
(* recommendations and the error or info message shown are those of the    *)
(* call made last; and isLoading is false only when no call is pending.    *)
(***************************************************************************)
LatestQueryShown ==
    /\ (recommendCalls # <<>>
          /\ \A i \in DOMAIN recommendCalls : recommendCalls[i].outcome # "pending") =>
           Shown = ShownFor(recommendCalls[Len(recommendCalls)])
    /\ ~home.isLoading =>
           \A i \in DOMAIN recommendCalls : recommendCalls[i].outcome # "pending"

====
